---- MODULE Spec2Model ----
(***************************************************************************)
(* Model of the astrology form: the place autocomplete (PlaceAutocomplete) *)
(* and the report request (AstrologyForm.onSubmit, getTimezoneOffsetISO).  *)
(* Time is counted in milliseconds for the timers and in minutes since the *)
(* epoch for calendar instants.                                            *)
(***************************************************************************)
EXTENDS Integers, Sequences, FiniteSets, TLC

VARIABLES
    browserTz,            \* IANA zone of the browser (environment)
    webhookUrl,           \* WEBHOOK_URL, fixed at build time ("" = undefined)
    value,                \* birthPlace field value, the text of the input
    debouncedSearchTerm,  \* useDebounce(value, 250)
    debounceTimer,        \* ms left on the pending debounce timeout, -1 = none
    stableFor,            \* ms since value last changed (capped at DEBOUNCE_MS)
    suggestions,          \* sequence of provider features
    isLoading,
    isOpen,
    selectedIndex,
    inflight,             \* terms of the geocoding requests awaiting a response
    selectedPlace,        \* AstrologyForm state: Place or NoPlace
    editedSince,          \* history: a text edit happened after the last Selection
    fields,               \* fullName, birthDate, birthTime, email
    isValid,              \* form.formState.isValid
    birthPlaceError,      \* form.formState.errors.birthPlace?.message ("" = none)
    submissions,          \* the POSTs of onSubmit calls that have not finished
    alerts,               \* number of alert() dialogs shown
    docWrites,            \* number of document.open/write/close replacements
    location,             \* "" while on the page, else the URL navigated to
    lastResponse,         \* history: what the last finished POST came back with
    lastSearch,           \* history: how the last finished geocoding request ended
    tzCall                \* last call of getTimezoneOffsetISO made on its own

vars == <<browserTz, webhookUrl, value, debouncedSearchTerm, debounceTimer,
          stableFor, suggestions, isLoading, isOpen, selectedIndex, inflight,
          selectedPlace, editedSince, fields, isValid,
          birthPlaceError, submissions, alerts, docWrites, location,
          lastResponse, lastSearch, tzCall>>

Max(a, b) == IF a >= b THEN a ELSE b
Min(a, b) == IF a <= b THEN a ELSE b
Abs(n) == IF n < 0 THEN -n ELSE n
Remove(seq, i) == SubSeq(seq, 1, i - 1) \o SubSeq(seq, i + 1, Len(seq))

(***************************************************************************)
(* Time zones.  Instants are minutes since 1970-01-01T00:00Z.              *)
(***************************************************************************)
Zones == {"UTC", "America/Sao_Paulo", "Asia/Kolkata", "America/New_York",
          "Europe/Lisbon"}

\* Reference instants: 2024-01-15T12:00Z, 2024-06-15T17:30Z,
\* 2024-12-01T03:00Z, 2025-07-01T00:00Z.
Instants == {28422000, 28641210, 28883700, 29188800}

\* What Intl knows: the zone's UTC offset (minutes east of UTC) at an instant.
\* New York: EDT from 2024-03-10T07:00Z to 2024-11-03T06:00Z and from
\* 2025-03-09T07:00Z; Lisbon: WEST from 2024-03-31T01:00Z to 2024-10-27T01:00Z
\* and from 2025-03-30T01:00Z.  Brazil has had no daylight saving since 2019.
ZoneOffset(tz, t) ==
    CASE tz = "UTC" -> 0
      [] tz = "America/Sao_Paulo" -> -180
      [] tz = "Asia/Kolkata" -> 330
      [] tz = "America/New_York" ->
            IF (t >= 28500900 /\ t < 28843560) \/ t >= 29025060
            THEN -240 ELSE -300
      [] tz = "Europe/Lisbon" ->
            IF (t >= 28530780 /\ t < 28833180) \/ t >= 29054940
            THEN 60 ELSE 0
      [] OTHER -> 0

\* date.toLocaleString('en-US', {timeZone}): the wall-clock reading of the
\* zone, as a zone-less timestamp (minutes).
ToLocaleString(date, timezone) == date + ZoneOffset(timezone, date)

\* new Date(string): a zone-less timestamp is read as browser-local time.
ParseLocal(wall, browser) ==
    LET guess == wall - ZoneOffset(browser, wall)
    IN  wall - ZoneOffset(browser, guess)

\* date.getTimezoneOffset(): UTC minus local time, in minutes.
GetTimezoneOffset(date, browser) == 0 - ZoneOffset(browser, date)

\* String(n).padStart(2, '0')
PadStart2(n) == IF Len(ToString(n)) < 2 THEN "0" \o ToString(n) ELSE ToString(n)

SignOf(offsetMinutes) == IF offsetMinutes <= 0 THEN "+" ELSE "-"

\* getTimezoneOffsetISO(timezone, date), run in a browser whose zone is
\* `browser`.  Instants are whole minutes, so Math.round changes nothing.
GetTimezoneOffsetISO(timezone, date, browser) ==
    LET localDate == ParseLocal(ToLocaleString(date, timezone), browser)
        offsetMinutes == (localDate - date) + GetTimezoneOffset(date, browser)
        sign == SignOf(offsetMinutes)
        absMinutes == Abs(offsetMinutes)
        hours == PadStart2(absMinutes \div 60)
        minutes == PadStart2(absMinutes % 60)
    IN  sign \o hours \o ":" \o minutes

\* The zone's actual offset at the instant, written +HH:MM / -HH:MM.
ActualOffsetISO(timezone, date) ==
    LET off == ZoneOffset(timezone, date)
    IN  (IF off >= 0 THEN "+" ELSE "-")
        \o PadStart2(Abs(off) \div 60) \o ":" \o PadStart2(Abs(off) % 60)

NoCall == [timezone |-> "", date |-> 0, result |-> ""]

(***************************************************************************)
(* PlaceAutocomplete                                                       *)
(***************************************************************************)
DEBOUNCE_MS == 250
MIN_QUERY_LEN == 2

\* Bounds of the model.
TickMs == 125        \* granularity of the clock
MaxInflight == 2     \* geocoding requests in flight at a time
MaxSubmits == 2      \* POSTs in flight at a time
MaxAlerts == 2       \* alert dialogs shown in one run

\* The features the provider can return (PlaceSuggestion.properties); an
\* absent optional field is "" (the code tests them all with || or a truthy
\* test, which does not tell undefined from '').
Feature(id) ==
    CASE id = 1 -> [name |-> "", city |-> "Sao Paulo", state |-> "SP",
                    country |-> "Brasil", country_code |-> "br",
                    lat |-> -24, lon |-> -47, place_id |-> "p1",
                    timezoneName |-> "America/Sao_Paulo"]
      [] id = 2 -> [name |-> "Lisboa", city |-> "", state |-> "",
                    country |-> "Portugal", country_code |-> "pt",
                    lat |-> 39, lon |-> -9, place_id |-> "p2",
                    timezoneName |-> ""]
      [] id = 3 -> [name |-> "", city |-> "Alert", state |-> "Nunavut",
                    country |-> "Canada", country_code |-> "ca",
                    lat |-> 91, lon |-> -62, place_id |-> "p3",
                    timezoneName |-> ""]
      [] OTHER  -> [name |-> "", city |-> "Null Island", state |-> "",
                    country |-> "", country_code |-> "",
                    lat |-> 0, lon |-> 0, place_id |-> "p4",
                    timezoneName |-> ""]

\* data.features of a successful response, in provider order.
ResultLists == {<<>>, <<1, 2>>, <<3, 4>>}

\* What the user can type into the field.
UserTexts == {"", "S", "Sa", "Sao"}

\* tz-lookup: throws on coordinates out of range; the name of the zone
\* otherwise ("" stands for a point the library has no zone for).
Tzlookup(lat, lon) ==
    IF lat < -90 \/ lat > 90 \/ lon < -180 \/ lon > 180
    THEN [throws |-> TRUE, name |-> ""]
    ELSE IF lat = 39 /\ lon = -9 THEN [throws |-> FALSE, name |-> "Europe/Lisbon"]
    ELSE IF lat = -24 /\ lon = -47
         THEN [throws |-> FALSE, name |-> "America/Sao_Paulo"]
    ELSE [throws |-> FALSE, name |-> ""]

\* a || b on strings
OrElse(a, b) == IF a # "" THEN a ELSE b

formatSuggestionMut(properties) ==
    LET city == OrElse(OrElse(properties.city, properties.name), "")
        admin == OrElse(properties.state, "")
        country == OrElse(properties.country, "")
    IN  city \o ", " \o admin \o ", " \o country

formatSuggestion(properties) ==
    LET city == OrElse(OrElse(properties.city, properties.name), "")
        admin == OrElse(properties.state, "")
        country == OrElse(properties.country, "")
    IN  city \o (IF admin # "" THEN ", " \o admin ELSE "") \o ", " \o country

getTimezoneMut(lat, lon, apiTimezone) ==
    IF apiTimezone # "" THEN apiTimezone
    ELSE Tzlookup(lat, lon).name

getTimezone(lat, lon, apiTimezone) ==
    IF apiTimezone # "" THEN apiTimezone
    ELSE IF Tzlookup(lat, lon).throws THEN "UTC"
    ELSE OrElse(Tzlookup(lat, lon).name, "UTC")

NoPlace == [city |-> "", admin |-> "", country |-> "", countryCode |-> "",
            lat |-> 0, lon |-> 0, timezone |-> "", provider |-> "",
            placeId |-> ""]

\* The Place selectSuggestion builds (admin: undefined is "").
PlaceOf(properties) ==
    [city |-> OrElse(OrElse(properties.city, properties.name), ""),
     admin |-> properties.state,
     country |-> OrElse(properties.country, ""),
     countryCode |-> OrElse(properties.country_code, ""),
     lat |-> properties.lat,
     lon |-> properties.lon,
     timezone |-> getTimezone(properties.lat, properties.lon,
                              properties.timezoneName),
     provider |-> "geoapify",
     placeId |-> properties.place_id]

\* The page's scripts run until the browser navigates away; the form can be
\* used until the document is replaced (document.open removes the nodes
\* and their event listeners; timers and pending promises go on).
Alive == location = ""
Interactive == Alive /\ docWrites = 0

(***************************************************************************)
(* Form validation (formSchema, zodResolver, mode 'onChange')              *)
(***************************************************************************)
IsDigit(c) == c \in {"0", "1", "2", "3", "4", "5", "6", "7", "8", "9"}
CharAt(s, i) == SubSeq(s, i, i)

\* timeRegex = /^([01]\d|2[0-3]):([0-5]\d)$/
timeRegex(s) ==
    /\ Len(s) = 5
    /\ \/ CharAt(s, 1) \in {"0", "1"} /\ IsDigit(CharAt(s, 2))
       \/ CharAt(s, 1) = "2" /\ CharAt(s, 2) \in {"0", "1", "2", "3"}
    /\ CharAt(s, 3) = ":"
    /\ CharAt(s, 4) \in {"0", "1", "2", "3", "4", "5"}
    /\ IsDigit(CharAt(s, 5))

\* z.string().email(): one '@' with a non-empty local part before it and a
\* dotted domain after it (the part of zod's pattern the inputs exercise).
IsEmail(s) ==
    \E i \in 2..Len(s) :
        /\ CharAt(s, i) = "@"
        /\ \A j \in 1..Len(s) : j # i => CharAt(s, j) # "@"
        /\ \E k \in (i + 2)..(Len(s) - 1) : CharAt(s, k) = "."

\* birthDate: 0 is undefined, otherwise an instant; minDate is
\* new Date(1900, 0, 1), now is the time of the validation.
DateInRange(date, now) == date # 0 /\ date >= -36816480 /\ date <= now

FullNames == {"", "Ana"}
\* undefined, and 2000-01-01T00:00Z
BirthDates == {0, 15778080}
BirthTimes == {"", "14:30"}
Emails == {"", "ana@x.io"}

\* The schema's verdict on the text fields (place is optional and never
\* set in the form values).
SchemaValid(f, birthPlace, now) ==
    /\ Len(f.fullName) >= 2 /\ Len(f.fullName) <= 150
    /\ DateInRange(f.birthDate, now)
    /\ Len(f.birthTime) >= 1 /\ timeRegex(f.birthTime)
    /\ Len(birthPlace) >= 1
    /\ IsEmail(f.email) /\ Len(f.email) >= 1

\* The browser's clock when the form validates.
Today == CHOOSE t \in Instants : \A u \in Instants : u <= t

isFormValidMut(valid, place) == valid
isFormValid(valid, place) == valid /\ place # NoPlace /\ place.timezone # ""

\* <Button disabled={!isFormValid}>
SubmitDisabled == ~isFormValid(isValid, selectedPlace)

\* What the webhook call can come back with: a rejected fetch, or a response
\* with a status, a content-type header ("" = none) and a body that parses
\* as JSON or not.
Responses ==
    {[rejects |-> TRUE, ok |-> FALSE, contentType |-> "", jsonParses |-> FALSE],
     [rejects |-> FALSE, ok |-> FALSE, contentType |-> "text/html", jsonParses |-> FALSE],
     [rejects |-> FALSE, ok |-> TRUE, contentType |-> "text/html; charset=utf-8", jsonParses |-> FALSE],
     [rejects |-> FALSE, ok |-> TRUE, contentType |-> "application/pdf", jsonParses |-> FALSE],
     [rejects |-> FALSE, ok |-> TRUE, contentType |-> "application/json", jsonParses |-> TRUE],
     [rejects |-> FALSE, ok |-> TRUE, contentType |-> "", jsonParses |-> FALSE]}

\* No geocoding request has finished yet.
NoSearch == [done |-> FALSE, ok |-> FALSE, features |-> <<>>, latest |-> FALSE]

\* No POST has finished yet.
NoResponse == [rejects |-> FALSE, ok |-> FALSE, contentType |-> "-", jsonParses |-> FALSE]

(***************************************************************************)
(* Initial state: the components have just mounted.                        *)
(***************************************************************************)
InitPage ==
    /\ value = ""
    /\ debouncedSearchTerm = ""
    /\ debounceTimer = DEBOUNCE_MS
    /\ stableFor = 0
    /\ suggestions = <<>>
    /\ isLoading = FALSE
    /\ isOpen = FALSE
    /\ selectedIndex = -1
    /\ inflight = <<>>
    /\ selectedPlace = NoPlace
    /\ editedSince = FALSE
    /\ fields = [fullName |-> "", birthDate |-> 0, birthTime |-> "", email |-> ""]
    /\ isValid = FALSE
    /\ birthPlaceError = ""
    /\ submissions = <<>>
    /\ alerts = 0
    /\ docWrites = 0
    /\ location = ""
    /\ lastResponse = NoResponse
    /\ lastSearch = NoSearch
    /\ tzCall = NoCall

BrowserZones == {"UTC", "America/Sao_Paulo"}
WebhookUrls == {"", "https://n8n.example/webhook/mapa"}

Init ==
    /\ browserTz \in BrowserZones
    /\ webhookUrl \in WebhookUrls
    /\ InitPage

formVars == <<fields, isValid, birthPlaceError>>
submitVars == <<submissions, alerts, docWrites, location, lastResponse>>
envVars == <<browserTz, webhookUrl, tzCall>>
searchVars == <<suggestions, isLoading, isOpen, selectedIndex, inflight,
                lastSearch>>

(***************************************************************************)
(* PlaceAutocomplete: the text field, the debounce and the search          *)
(***************************************************************************)
\* field.onChange(text): the form stores the value and validates again.
FieldOnChange(text, now) ==
    /\ value' = text
    /\ isValid' = SchemaValid(fields, text, now)
    /\ birthPlaceError' =
          IF Len(text) >= 1 THEN "" ELSE "A cidade de nascimento e obrigatoria."
    /\ UNCHANGED fields

\* useDebounce: every change of value clears the pending timeout and starts
\* a new one of DEBOUNCE_MS.
RestartDebounce ==
    /\ debounceTimer' = DEBOUNCE_MS
    /\ stableFor' = 0

\* A change of value is taken only while one more request fits in flight.
CanChangeValue == debounceTimer >= 0 \/ Len(inflight) < MaxInflight

onPlaceSelectMut(place) ==
    /\ selectedPlace' = (IF place = NoPlace THEN selectedPlace ELSE place)
    /\ editedSince' = (IF place = NoPlace THEN TRUE ELSE FALSE)

\* onPlaceSelect of the form: setSelectedPlace(place), and clearErrors when
\* a place is given (FieldOnChange has cleared the error already).
onPlaceSelect(place) ==
    /\ selectedPlace' = place
    /\ editedSince' = (IF place = NoPlace THEN TRUE ELSE FALSE)

\* Input onChange: the user edits the text.
InputOnChange(text) ==
    /\ Interactive
    /\ text # value
    /\ CanChangeValue
    /\ FieldOnChange(text, Today)
    /\ onPlaceSelect(NoPlace)
    /\ RestartDebounce
    /\ UNCHANGED <<debouncedSearchTerm, searchVars, submitVars, envVars>>

\* The clock advances; a timeout that is due runs first.
Tick ==
    /\ Alive
    /\ debounceTimer # 0
    /\ debounceTimer' = (IF debounceTimer < 0 THEN -1
                         ELSE Max(debounceTimer - TickMs, 0))
    /\ stableFor' = Min(stableFor + TickMs, DEBOUNCE_MS)
    /\ stableFor' # stableFor \/ debounceTimer' # debounceTimer
    /\ UNCHANGED <<value, debouncedSearchTerm, searchVars, selectedPlace,
                   editedSince, formVars, submitVars, envVars>>

ShouldSearch(term) == ~(Len(term) < MIN_QUERY_LEN)

\* The search effect, run after a render in which debouncedSearchTerm changed.
SearchEffect(term) ==
    IF ShouldSearch(term)
    THEN /\ isLoading' = TRUE
         /\ inflight' = Append(inflight, term)
         /\ UNCHANGED <<suggestions, isOpen, selectedIndex, lastSearch>>
    ELSE /\ suggestions' = <<>>
         /\ isOpen' = FALSE
         /\ UNCHANGED <<isLoading, selectedIndex, inflight, lastSearch>>

EffectRunsMut(before, after) == TRUE
\* React runs the effect again only when its dependency changed.
EffectRuns(before, after) == before # after

\* The debounce timeout fires: setDebouncedValue(value), then the effect.
DebounceFire ==
    /\ Alive
    /\ debounceTimer = 0
    /\ debounceTimer' = -1
    /\ debouncedSearchTerm' = value
    /\ IF EffectRuns(debouncedSearchTerm, value)
       THEN SearchEffect(value)
       ELSE UNCHANGED searchVars
    /\ UNCHANGED <<value, stableFor, selectedPlace, editedSince, formVars,
                   submitVars, envVars>>

\* Request req is the one issued last, for the query of the last render.
IsLatest(req) == req = Len(inflight) /\ inflight[req] = debouncedSearchTerm

SearchResolvedMut(req, features) ==
    /\ Alive
    /\ req \in 1..Len(inflight)
    /\ inflight' = Remove(inflight, req)
    /\ lastSearch' = [done |-> TRUE, ok |-> TRUE, features |-> features,
                     latest |-> IsLatest(req)]
    /\ IF IsLatest(req)
       THEN suggestions' = features /\ isOpen' = TRUE /\ selectedIndex' = -1
       ELSE UNCHANGED <<suggestions, isOpen, selectedIndex>>
    /\ isLoading' = FALSE
    /\ UNCHANGED <<value, debouncedSearchTerm, debounceTimer, stableFor, selectedPlace, editedSince, formVars, submitVars, envVars>>

\* searchPlaces after the await: the response is ok and its JSON parses.
SearchResolved(req, features) ==
    /\ Alive
    /\ req \in 1..Len(inflight)
    /\ inflight' = Remove(inflight, req)
    /\ lastSearch' = [done |-> TRUE, ok |-> TRUE, features |-> features,
                     latest |-> IsLatest(req)]
    /\ suggestions' = features
    /\ isOpen' = TRUE
    /\ selectedIndex' = -1
    /\ isLoading' = FALSE
    /\ UNCHANGED <<value, debouncedSearchTerm, debounceTimer, stableFor, selectedPlace, editedSince, formVars, submitVars, envVars>>

SearchFailedMut(req) ==
    /\ Alive
    /\ req \in 1..Len(inflight)
    /\ inflight' = Remove(inflight, req)
    /\ lastSearch' = [done |-> TRUE, ok |-> FALSE, features |-> <<>>,
                     latest |-> IsLatest(req)]
    /\ suggestions' = <<>>
    /\ isLoading' = FALSE
    /\ isOpen' = FALSE
    /\ UNCHANGED <<value, debouncedSearchTerm, debounceTimer, stableFor,
                   selectedIndex, selectedPlace, editedSince, formVars,
                   submitVars, envVars>>

\* searchPlaces after the await: fetch rejected, status not ok, or bad JSON.
SearchFailed(req) ==
    /\ Alive
    /\ req \in 1..Len(inflight)
    /\ inflight' = Remove(inflight, req)
    /\ lastSearch' = [done |-> TRUE, ok |-> FALSE, features |-> <<>>,
                     latest |-> IsLatest(req)]
    /\ suggestions' = <<>>
    /\ isLoading' = FALSE
    /\ UNCHANGED <<value, debouncedSearchTerm, debounceTimer, stableFor, isOpen,
                   selectedIndex, selectedPlace, editedSince, formVars,
                   submitVars, envVars>>

(***************************************************************************)
(* PlaceAutocomplete: Selection and the keyboard                           *)
(***************************************************************************)
\* selectSuggestion(suggestion): onChange(formatted), onPlaceSelect(place),
\* setIsOpen(false).  useDebounce restarts its timeout when value changed.
selectSuggestion(properties) ==
    LET formatted == formatSuggestion(properties)
    IN  /\ formatted = value \/ CanChangeValue
        /\ FieldOnChange(formatted, Today)
        /\ IF formatted # value
           THEN RestartDebounce
           ELSE UNCHANGED <<debounceTimer, stableFor>>
        /\ onPlaceSelect(PlaceOf(properties))
        /\ isOpen' = FALSE
        /\ UNCHANGED <<debouncedSearchTerm, suggestions, isLoading,
                       selectedIndex, inflight, lastSearch, submitVars,
                       envVars>>

\* The list is rendered when isOpen && suggestions.length > 0.
ListShown == isOpen /\ Len(suggestions) > 0

\* <li onClick>
ClickSuggestion(index) ==
    /\ Interactive
    /\ ListShown
    /\ index \in 1..Len(suggestions)
    /\ selectSuggestion(Feature(suggestions[index]))

Keys == {"ArrowDown", "ArrowUp", "Enter", "Escape"}

\* handleKeyDown; selectedIndex counts from 0 as in the code, so the
\* highlighted suggestion is suggestions[selectedIndex + 1] here.
handleKeyDown(key) ==
    /\ Interactive
    /\ IF ~isOpen THEN UNCHANGED vars
       ELSE
       CASE key = "ArrowDown" ->
              /\ selectedIndex' = (IF selectedIndex < Len(suggestions) - 1
                                   THEN selectedIndex + 1 ELSE selectedIndex)
              /\ UNCHANGED <<value, debouncedSearchTerm, debounceTimer,
                             stableFor, suggestions, isLoading, isOpen,
                             inflight, lastSearch, selectedPlace,
                             editedSince, formVars, submitVars, envVars>>
         [] key = "ArrowUp" ->
              /\ selectedIndex' = (IF selectedIndex > 0
                                   THEN selectedIndex - 1 ELSE -1)
              /\ UNCHANGED <<value, debouncedSearchTerm, debounceTimer,
                             stableFor, suggestions, isLoading, isOpen,
                             inflight, lastSearch, selectedPlace,
                             editedSince, formVars, submitVars, envVars>>
         [] key = "Enter" ->
              IF selectedIndex >= 0 /\ selectedIndex + 1 <= Len(suggestions)
              THEN selectSuggestion(Feature(suggestions[selectedIndex + 1]))
              ELSE UNCHANGED vars
         [] OTHER ->
              /\ isOpen' = FALSE
              /\ selectedIndex' = -1
              /\ UNCHANGED <<value, debouncedSearchTerm, debounceTimer,
                             stableFor, suggestions, isLoading, inflight,
                             lastSearch, selectedPlace, editedSince,
                             formVars, submitVars, envVars>>

(***************************************************************************)
(* AstrologyForm: the other fields                                         *)
(***************************************************************************)
\* field.onChange of fullName, birthDate, birthTime and email.
SetField(name, v) ==
    /\ Interactive
    /\ fields[name] # v
    /\ fields' = [fields EXCEPT ![name] = v]
    /\ isValid' = SchemaValid(fields', value, Today)
    /\ UNCHANGED <<value, debouncedSearchTerm, debounceTimer, stableFor,
                   searchVars, selectedPlace, editedSince, birthPlaceError,
                   submitVars, envVars>>

\* The user works down the form and goes back up one field at a time.
EditFields ==
    \/ fields.birthDate = 0 /\ \E v \in FullNames : SetField("fullName", v)
    \/ fields.fullName # "" /\ fields.birthTime = ""
          /\ \E v \in BirthDates : SetField("birthDate", v)
    \/ fields.birthDate # 0 /\ fields.email = ""
          /\ \E v \in BirthTimes : SetField("birthTime", v)
    \/ fields.birthTime # "" /\ \E v \in Emails : SetField("email", v)


(***************************************************************************)
(* AstrologyForm: onSubmit                                                 *)
(***************************************************************************)
\* ct.includes(part)
Includes(ct, part) ==
    \E i \in 1..(Len(ct) - Len(part) + 1) : SubSeq(ct, i, i + Len(part) - 1) = part

Payload(data, place, timezoneOffset) ==
    [fullName |-> data.fullName,
     birthDate |-> data.birthDate,
     birthTime |-> data.birthTime,
     email |-> data.email,
     place |-> [city |-> place.city,
                admin |-> OrElse(place.admin, ""),
                country |-> place.country,
                countryCode |-> place.countryCode,
                lat |-> place.lat,
                lon |-> place.lon,
                timezone |-> place.timezone,
                timezoneOffset |-> timezoneOffset,
                provider |-> place.provider,
                placeId |-> place.placeId]]

HasPlaceMut(place) == TRUE
\* !selectedPlace is false
HasPlace(place) == place # NoPlace

HasWebhookMut(url) == TRUE
\* !WEBHOOK_URL is false
HasWebhook(url) == url # ""

\* form.handleSubmit(onSubmit) on the form's submit event at instant `now`:
\* onSubmit runs when the resolver accepts the values; it ends at the first
\* await, with the POST in flight.
SubmitForm(now) ==
    /\ Interactive
    /\ SchemaValid(fields, value, now)
    /\ IF ~HasPlace(selectedPlace)
       THEN /\ birthPlaceError' = "Selecione uma cidade das sugestoes."
            /\ birthPlaceError' # birthPlaceError
            /\ UNCHANGED <<submissions, alerts>>
       ELSE IF ~HasWebhook(webhookUrl)
       THEN /\ alerts < MaxAlerts
            /\ alerts' = alerts + 1
            /\ UNCHANGED <<submissions, birthPlaceError>>
       ELSE /\ Len(submissions) < MaxSubmits
            /\ alerts + Len(submissions) < MaxAlerts
            /\ submissions' = Append(submissions,
                  [payload |-> Payload(fields, selectedPlace,
                        GetTimezoneOffsetISO(selectedPlace.timezone, now, browserTz)),
                   at |-> now])
            /\ UNCHANGED <<alerts, birthPlaceError>>
    /\ UNCHANGED <<value, debouncedSearchTerm, debounceTimer, stableFor,
                   searchVars, selectedPlace, editedSince, fields, isValid,
                   docWrites, location, lastResponse, envVars>>

PdfBranchMut(res) == FALSE
ThrowsMut(res) == res.rejects
\* The outcomes of the try block for what fetch came back with.
Throws(res) == res.rejects \/ ~res.ok
HtmlBranch(res) == ~Throws(res) /\ Includes(res.contentType, "text/html")
PdfBranch(res) ==
    ~Throws(res) /\ ~HtmlBranch(res) /\ Includes(res.contentType, "application/pdf")
JsonBranch(res) == ~Throws(res) /\ ~HtmlBranch(res) /\ ~PdfBranch(res)

JsonBodyMut(res) == IF res.jsonParses THEN "json" ELSE "throws"
\* await res.json().catch(() => ({})): the body, or {} when it does not
\* parse; "throws" would be a rejection reaching the catch block.
JsonBody(res) == IF res.jsonParses THEN "json" ELSE "{}"

\* The catch block runs: console.error and alert.
Caught(res) == Throws(res) \/ (JsonBranch(res) /\ JsonBody(res) = "throws")

\* The rest of onSubmit for POST i, once fetch has come back with res and
\* the body has been read (text(), blob() or json().catch).
SubmitSettled(i, res) ==
    /\ Alive
    /\ i \in 1..Len(submissions)
    /\ submissions' = Remove(submissions, i)
    /\ lastResponse' = res
    /\ alerts' = (IF Caught(res) THEN alerts + 1 ELSE alerts)
    /\ docWrites' = (IF HtmlBranch(res) THEN docWrites + 1 ELSE docWrites)
    /\ location' = (IF PdfBranch(res) THEN "blob:report" ELSE location)
    /\ UNCHANGED <<value, debouncedSearchTerm, debounceTimer, stableFor,
                   searchVars, selectedPlace, editedSince, formVars, envVars>>

(***************************************************************************)
(* Specifications                                                          *)
(***************************************************************************)
\* The autocomplete, with the user typing `texts` and the provider
\* answering with `results`.
SearchNext(texts, results) ==
    \/ \E text \in texts : InputOnChange(text)
    \/ Tick
    \/ DebounceFire
    \/ \E req \in 1..MaxInflight, features \in results : SearchResolved(req, features)
    \/ \E req \in 1..MaxInflight : SearchFailed(req)
    \/ \E index \in 1..2 : ClickSuggestion(index)
    \/ \E key \in Keys : handleKeyDown(key)

\* The place field on its own.
Next == SearchNext(UserTexts, ResultLists)

Spec == Init /\ [][Next]_vars

\* The whole form, with one city typed and found.
ReportTexts == {"Sa"}
ReportResults == {<<1>>}
\* 2024-06-15T17:30Z
SubmitInstants == {28641210}

NextReport ==
    \/ \E text \in ReportTexts : InputOnChange(text)
    \/ Tick
    \/ DebounceFire
    \/ \E req \in 1..MaxInflight, features \in ReportResults :
          SearchResolved(req, features)
    \/ \E index \in 1..2 : ClickSuggestion(index)
    \/ EditFields
    \/ \E now \in SubmitInstants : SubmitForm(now)
    \/ \E i \in 1..MaxSubmits, res \in Responses : SubmitSettled(i, res)

SpecReport == Init /\ [][NextReport]_vars

\* getTimezoneOffsetISO on its own, in a browser of any zone.
CallGetTimezoneOffsetISO(timezone, date) ==
    /\ tzCall' = [timezone |-> timezone, date |-> date,
                  result |-> GetTimezoneOffsetISO(timezone, date, browserTz)]
    /\ UNCHANGED <<browserTz, webhookUrl, value, debouncedSearchTerm,
                   debounceTimer, stableFor, searchVars, selectedPlace,
                   editedSince, formVars, submitVars>>

InitTz ==
    /\ browserTz \in Zones
    /\ webhookUrl \in WebhookUrls
    /\ InitPage

NextTz == \E timezone \in Zones, date \in Instants :
              CallGetTimezoneOffsetISO(timezone, date)

SpecTz == InitTz /\ [][NextTz]_vars

(***************************************************************************)
(* Properties                                                              *)
(***************************************************************************)
\* C1: whatever the browser's zone, getTimezoneOffsetISO returns the zone's
\* actual UTC offset at the instant as +HH:MM (at or ahead of UTC) or -HH:MM
\* (behind UTC); America/Sao_Paulo gives "-03:00".
C1_OffsetIsActual ==
    tzCall # NoCall =>
        /\ tzCall.result = ActualOffsetISO(tzCall.timezone, tzCall.date)
        /\ tzCall.timezone = "America/Sao_Paulo" => tzCall.result = "-03:00"

\* C2: while the (debounced) query is shorter than 2 characters no
\* geocoding request is in flight for a short query, the suggestion list is
\* empty and the dropdown is closed, also after an earlier request has
\* completed.
C2_ShortQueryShowsNothing ==
    /\ \A r \in 1..Len(inflight) : Len(inflight[r]) >= MIN_QUERY_LEN
    /\ Len(debouncedSearchTerm) < MIN_QUERY_LEN => suggestions = <<>> /\ ~isOpen

\* The debounce timeout fires in this step.
Settles == debounceTimer = 0 /\ debounceTimer' = -1
\* A geocoding request is issued in this step.
Requests == Len(inflight') > Len(inflight)

\* C3 as stated: a request is issued only for a value that has been stable
\* for DEBOUNCE_MS, and every settling on a value of at least 2 characters
\* issues exactly one request for it.
C3_OneRequestPerSettle ==
    [][/\ Requests => /\ Settles
                      /\ stableFor >= DEBOUNCE_MS
                      /\ inflight' = Append(inflight, value)
       /\ (Settles /\ Len(value) >= MIN_QUERY_LEN) =>
              inflight' = Append(inflight, value)]_vars

\* C3 amended: a request is issued only for a value of at least 2
\* characters that has been stable for DEBOUNCE_MS; settling on such a value
\* issues exactly one request when it differs from the value settled on
\* before, and none when it is the same.
C3_OneRequestPerNewSettledValue ==
    [][/\ Requests => /\ Settles
                      /\ stableFor >= DEBOUNCE_MS
                      /\ Len(value) >= MIN_QUERY_LEN
                      /\ inflight' = Append(inflight, value)
       /\ (Settles /\ Len(value) >= MIN_QUERY_LEN
                   /\ value # debouncedSearchTerm) =>
              inflight' = Append(inflight, value)
       /\ (Settles /\ value = debouncedSearchTerm) => inflight' = inflight]_vars

C3_Witness ==
    /\ Len(inflight) = 2
    /\ inflight[1] # inflight[2]
    /\ debouncedSearchTerm = inflight[2]
    /\ debounceTimer = -1

\* "City, Admin, Country" of a Place.
LabelOf(place) ==
    place.city \o (IF place.admin # "" THEN ", " \o place.admin ELSE "")
               \o ", " \o place.country

\* C4: a resolved Place implies that the text has not been edited since the
\* Selection that created it: the field still shows that Place's label.
C4_PlaceImpliesNoEdit ==
    selectedPlace # NoPlace => ~editedSince /\ value = LabelOf(selectedPlace)

\* An edit after a Selection (the debounced term is still the label).
C4_Witness ==
    /\ editedSince
    /\ selectedPlace = NoPlace
    /\ debouncedSearchTerm \in {formatSuggestion(Feature(id)) : id \in 1..4}
    /\ value \in UserTexts

\* C5: the submit button is disabled exactly when a text field fails its
\* validation, or no Place is resolved, or the Place's timezone is empty.
C5_DisabledIff ==
    SubmitDisabled <=>
        \/ ~SchemaValid(fields, value, Today)
        \/ selectedPlace = NoPlace
        \/ selectedPlace.timezone = ""

C5_Witness ==
    /\ ~SubmitDisabled
    /\ SchemaValid(fields, value, Today)
    /\ selectedPlace # NoPlace

\* C6: the timezone of a Place is the provider's name when given, else the
\* name the coordinate lookup returns when it returns one, else "UTC"; it
\* is never empty.
C6_TimezoneFallback ==
    selectedPlace # NoPlace =>
        \E id \in 1..4 :
            LET f == Feature(id)
                looked == Tzlookup(f.lat, f.lon)
            IN  /\ f.place_id = selectedPlace.placeId
                /\ selectedPlace.timezone # ""
                /\ f.timezoneName # "" => selectedPlace.timezone = f.timezoneName
                /\ (f.timezoneName = "" /\ ~looked.throws /\ looked.name # "")
                      => selectedPlace.timezone = looked.name
                /\ (f.timezoneName = "" /\ (looked.throws \/ looked.name = ""))
                      => selectedPlace.timezone = "UTC"

\* A Place whose lookup threw.
C6_Witness ==
    /\ selectedPlace # NoPlace
    /\ selectedPlace.placeId = "p3"
    /\ selectedPlace.timezone = "UTC"

\* A POST finishes in this step: its response is lastResponse'.
Settled == Len(submissions') < Len(submissions)

\* C7: a success response with an HTML content type replaces the document,
\* and once the document is replaced no network call is issued and no
\* response is handled any more.
C7_ReplacementIsTerminal ==
    [][/\ (Settled /\ ~lastResponse'.rejects /\ lastResponse'.ok
             /\ Includes(lastResponse'.contentType, "text/html"))
          => docWrites' = docWrites + 1
       /\ docWrites > 0 => /\ submissions' = submissions
                           /\ inflight' = inflight
                           /\ docWrites' = docWrites
                           /\ alerts' = alerts]_vars

\* C8: a success response with a PDF content type (and not HTML) navigates
\* to the object URL of its body; the document is not replaced and no alert
\* is shown.
C8_PdfNavigates ==
    [][(Settled /\ ~lastResponse'.rejects /\ lastResponse'.ok
          /\ Includes(lastResponse'.contentType, "application/pdf")
          /\ ~Includes(lastResponse'.contentType, "text/html"))
       => /\ location' = "blob:report"
          /\ docWrites' = docWrites
          /\ alerts' = alerts]_vars

C8_Witness ==
    /\ location = "blob:report"
    /\ lastResponse.contentType = "application/pdf"
    /\ alerts = 0
    /\ docWrites = 0

\* C9: a rejected call or a non-success status shows exactly one alert,
\* leaves the form values and the Place as they were and issues no POST.
C9_FailureAlertsOnce ==
    [][(Settled /\ (lastResponse'.rejects \/ ~lastResponse'.ok))
       => /\ alerts' = alerts + 1
          /\ Len(submissions') = Len(submissions) - 1
          /\ fields' = fields
          /\ value' = value
          /\ selectedPlace' = selectedPlace
          /\ docWrites' = docWrites
          /\ location' = location]_vars

\* A non-success status has been answered with an alert.
C9_Witness ==
    /\ alerts = 1
    /\ ~lastResponse.rejects
    /\ ~lastResponse.ok
    /\ lastResponse # NoResponse
    /\ SchemaValid(fields, value, Today)
    /\ selectedPlace # NoPlace

\* C10: without a webhook URL no POST is ever issued; the only effect of
\* the missing URL is one alert per submit made with a resolved Place,
\* which changes nothing else.
C10_NoWebhookAborts ==
    [][webhookUrl = "" =>
          /\ submissions' = <<>>
          /\ lastResponse' = NoResponse
          /\ alerts' # alerts =>
                /\ alerts' = alerts + 1
                /\ selectedPlace # NoPlace
                /\ UNCHANGED <<value, debouncedSearchTerm, debounceTimer,
                               stableFor, searchVars, selectedPlace,
                               editedSince, formVars, docWrites, location>>]_vars

\* Search and Selection have worked and a submit has been aborted.
C10_Witness ==
    /\ webhookUrl = ""
    /\ alerts = 1
    /\ selectedPlace # NoPlace
    /\ submissions = <<>>

\* A POST is issued in this step.
Posts == Len(submissions') > Len(submissions)
\* The message onSubmit sets on the place field.
PlaceErrorRaised == birthPlaceError = "Selecione uma cidade das sugestoes."

\* C11: while no Place is resolved no step issues a POST and no step shows
\* an alert other than the one of an earlier POST's failure; a submit made
\* then raises the error on the place field and changes nothing else, also
\* when no webhook is configured; every POST issued, and every POST in
\* flight, carries a Place with an id and a non-empty timezone.
C11_NoPlaceNoPost ==
    [][/\ selectedPlace = NoPlace =>
             /\ ~Posts
             /\ alerts' # alerts => Settled
       /\ (PlaceErrorRaised' /\ ~PlaceErrorRaised) =>
             /\ selectedPlace = NoPlace
             /\ UNCHANGED <<submissions, alerts, docWrites, location,
                            selectedPlace, fields, value>>
       /\ \A i \in 1..Len(submissions') :
             /\ submissions'[i].payload.place.placeId # ""
             /\ submissions'[i].payload.place.timezone # ""]_vars

\* A submit without a Place has raised the error, with and without a
\* webhook; nothing was posted and nothing alerted.
C11_Witness ==
    /\ PlaceErrorRaised
    /\ selectedPlace = NoPlace
    /\ SchemaValid(fields, value, Today)
    /\ submissions = <<>>
    /\ alerts = 0
    /\ lastResponse = NoResponse
    /\ webhookUrl = ""

\* The "Nenhuma cidade encontrada" box is rendered.
NoResultsShown ==
    isOpen /\ Len(suggestions) = 0 /\ ~isLoading /\ Len(value) >= MIN_QUERY_LEN

\* C12: the "no results" message is on screen only when the geocoding
\* request that finished last succeeded with zero matches, never after one
\* that failed.
C12_NoResultsOnlyAfterEmptySuccess ==
    NoResultsShown =>
        lastSearch.done /\ lastSearch.ok /\ lastSearch.features = <<>>

\* C13: in every reachable state isLoading is true while a geocoding
\* request is in flight, also after other requests have completed.
C13_LoadingWhileInflight == Len(inflight) > 0 => isLoading

\* C14: a success response whose content type is neither HTML nor PDF has
\* its body parsed as JSON, and whether or not it parses no alert is shown,
\* the document is not replaced, nothing is navigated to and the form keeps
\* its values, its Place and its errors.
C14_OtherSuccessIsSilent ==
    [][(Settled /\ ~lastResponse'.rejects /\ lastResponse'.ok
          /\ ~Includes(lastResponse'.contentType, "text/html")
          /\ ~Includes(lastResponse'.contentType, "application/pdf"))
       => /\ alerts' = alerts
          /\ docWrites' = docWrites
          /\ location' = location
          /\ UNCHANGED <<value, fields, isValid, birthPlaceError,
                         selectedPlace, editedSince>>]_vars

\* A success response without content type, whose body is not JSON, has
\* been handled.
C14_Witness ==
    /\ lastResponse.ok
    /\ lastResponse.contentType = ""
    /\ ~lastResponse.jsonParses
    /\ alerts = 0
    /\ docWrites = 0
    /\ location = ""
    /\ submissions = <<>>

\* A geocoding request finishes in this step: lastSearch' tells how.
SearchDone == Len(inflight') < Len(inflight)

\* C15: a successful geocoding response, of whichever request in flight,
\* replaces the suggestion list with its features in their order, opens
\* the dropdown and sets the highlighted index to -1; the list on screen is
\* always that of the response that finished last, also when that response
\* is not the one of the latest query.
C15_LastResponseWins ==
    [][/\ (SearchDone /\ lastSearch'.ok) =>
             /\ \E req \in 1..Len(inflight) : inflight' = Remove(inflight, req)
             /\ suggestions' = lastSearch'.features
             /\ isOpen'
             /\ selectedIndex' = -1
       /\ ListShown' =>
             /\ lastSearch'.ok
             /\ suggestions' = lastSearch'.features]_vars

\* Both responses have arrived, the one of the earlier query last, and its
\* list is on screen while the text and the debounced query are "Sao".
C15_Witness ==
    /\ ListShown
    /\ lastSearch.ok
    /\ ~lastSearch.latest
    /\ suggestions = <<3, 4>>
    /\ selectedIndex = -1
    /\ inflight = <<>>
    /\ debouncedSearchTerm = "Sao"
    /\ value = "Sao"

\* C16: a geocoding request that fails clears the suggestion list and the
\* loading flag and leaves the dropdown-open flag, the text and the
\* resolved Place as they were.
C16_FailureFrame ==
    [][(SearchDone /\ ~lastSearch'.ok) =>
          /\ suggestions' = <<>>
          /\ isLoading' = FALSE
          /\ UNCHANGED <<isOpen, value, debouncedSearchTerm, selectedPlace>>]_vars

\* The last request failed while the dropdown was open and a Place was
\* resolved: both are still so.
C16_Witness ==
    /\ lastSearch.done
    /\ ~lastSearch.ok
    /\ suggestions = <<>>
    /\ ~isLoading
    /\ isOpen
    /\ selectedPlace # NoPlace
    /\ value = LabelOf(selectedPlace)
    /\ inflight = <<>>

\* What Selection of the suggestion at `index` (from 0) leaves behind.
Selected(index) ==
    LET properties == Feature(suggestions[index + 1])
    IN  /\ value' = formatSuggestion(properties)
        /\ selectedPlace' = PlaceOf(properties)
        /\ isOpen' = FALSE

\* The state of the autocomplete that a key can touch.
resolverVars == <<value, suggestions, isLoading, isOpen, selectedIndex,
                  inflight, selectedPlace>>

\* C17: with the dropdown open, Down adds 1 to the highlighted index and
\* never takes or leaves it beyond the last suggestion's index, Up subtracts
\* 1 and never goes below -1, Enter performs Selection exactly when the
\* index is that of an existing suggestion and else changes nothing, Escape
\* closes the dropdown with index -1; with the dropdown closed no key
\* changes anything.  Stated of every key the page can take in a state.
C17_KeyboardMachine ==
    LET last == Len(suggestions) - 1
    IN  /\ isOpen =>
              /\ ~ENABLED (/\ handleKeyDown("ArrowDown")
                           /\ ~(/\ selectedIndex' <= last
                                /\ selectedIndex' = Min(selectedIndex + 1, last)))
              /\ ~ENABLED (/\ handleKeyDown("ArrowUp")
                           /\ selectedIndex' # Max(selectedIndex - 1, -1))
              /\ ~ENABLED (/\ handleKeyDown("Enter")
                           /\ ~(IF selectedIndex >= 0 /\ selectedIndex <= last
                                THEN Selected(selectedIndex)
                                ELSE UNCHANGED resolverVars))
              /\ ~ENABLED (/\ handleKeyDown("Escape")
                           /\ ~(~isOpen' /\ selectedIndex' = -1))
        /\ ~isOpen =>
              \A key \in Keys :
                  ~ENABLED (handleKeyDown(key) /\ ~UNCHANGED resolverVars)

\* Selection of suggestion number `index` of the list (from 1), by click or
\* by Enter.
Selects(index) ==
    /\ index <= Len(suggestions)
    /\ \/ ClickSuggestion(index)
       \/ isOpen /\ selectedIndex = index - 1 /\ handleKeyDown("Enter")

\* What the claim says Selection of suggestion number `index` leaves behind.
SelectionEffect(index) ==
    LET f == Feature(suggestions[index])
        city == IF f.city # "" THEN f.city ELSE f.name
    IN  /\ value' = city \o (IF f.state # "" THEN ", " \o f.state ELSE "")
                          \o ", " \o f.country
        /\ selectedPlace' # NoPlace
        /\ selectedPlace'.city = city
        /\ selectedPlace'.country = f.country
        /\ selectedPlace'.countryCode = f.country_code
        /\ selectedPlace'.lat = f.lat
        /\ selectedPlace'.lon = f.lon
        /\ selectedPlace'.placeId = f.place_id
        /\ selectedPlace'.provider = "geoapify"
        /\ ~isOpen'

\* C18: Selection of a suggestion, by click or by Enter, puts the label
\* "City, Admin, Country" into the text field (without ", Admin" when the
\* suggestion has no state), gives the form a Place built from that
\* suggestion and closes the dropdown.  Stated of every Selection the page
\* can make in a state.
C18_SelectionEffect ==
    \A index \in 1..Len(suggestions) :
        ListShown => ~ENABLED (Selects(index) /\ ~SelectionEffect(index))

\* Lisboa, which has no state, has been selected with the keyboard.
C18_Witness ==
    /\ selectedPlace # NoPlace
    /\ selectedPlace.placeId = "p2"
    /\ selectedPlace.admin = ""
    /\ value = "Lisboa, Portugal"
    /\ ~isOpen
    /\ selectedIndex = 1

\* C19: in every reachable state the highlighted index lies in
\* -1 .. Len(suggestions) - 1, so it is -1 whenever the list is empty, also
\* after a failed search and after the query dropped below 2 characters.
C19_IndexInRange ==
    /\ selectedIndex >= -1
    /\ selectedIndex <= Len(suggestions) - 1

\* C20: from a Selection until the next edit of the text (that is, while a
\* Place is resolved) the dropdown is closed and no geocoding request is
\* issued; in particular the label written into the field by the Selection
\* does not start a search.
C20_QuietAfterSelection ==
    [][/\ selectedPlace' # NoPlace => ~isOpen'
       /\ (selectedPlace # NoPlace /\ selectedPlace' # NoPlace) => ~Requests]_vars

\* C21: at most one POST is in flight at any time: a submit made while a
\* response is pending issues none, so the page never replaces its document
\* twice and never shows an alert after a replacement.
C21_OnePostInFlight ==
    [][/\ Len(submissions') <= 1
       /\ (Len(submissions) > 0 => ~Posts)
       /\ docWrites' <= 1
       /\ (docWrites > 0 => alerts' = alerts)]_vars
====
